---- MODULE Spec2Model ----
(***************************************************************************)
(* Layout engine of the PDF report / receipt / tax-invoice generators.     *)
(*                                                                         *)
(* Two documents are modelled.                                             *)
(*  - The business report (exportReportToPDF): a flowing cursor doc.y,     *)
(*    ensureSpace, the pageAdded handler, drawWideLeftTable,               *)
(*    printKeyValueTable, and the end of the export with its write stream. *)
(*  - The receipt / tax invoice: generateHeader, the grid rows of          *)
(*    generateInformationLine and generateInformationLineWithFixedHeight   *)
(*    with their callers generateTaxInformationTable and                   *)
(*    drawPremiumBreakdown, addHeritageLogo, and the promise the generator *)
(*    returns.                                                             *)
(* Three smaller parts follow them: two generator calls running side by    *)
(* side, the conversion rates of the report sections, and getValueByPath   *)
(* of the data extractor.                                                  *)
(*                                                                         *)
(* Vertical lengths are in PDF units and are integers.  The y of a drawn   *)
(* text is kept doubled (2 * y) because the centring offset                *)
(* (rowHeight - height) / 2 - 1 is a half-integer for odd differences.     *)
(* Horizontal lengths are in hundredths of a unit (an A4 page is 595.28    *)
(* units wide).                                                            *)
(* A text is represented by what the layout reads of it: its measured      *)
(* height (doc.heightOfString) under the font state in force.              *)
(***************************************************************************)
EXTENDS Integers, Sequences, FiniteSets, TLC

VARIABLES
    pageHeight,     \* doc.page.height
    pageWidth,      \* doc.page.width, in hundredths of a unit
    docY,           \* doc.y, the report's flowing cursor
    pages,          \* number of pages of the report document
    borders,        \* borders[p]: times drawPageBorder ran on page p
    pc,             \* position of the report generator: "idle" | "wide" | "kv"
    rows,           \* drawWideLeftTable: the rows argument; printKeyValueTable: entries
    idx,            \* drawWideLeftTable: loop index i, 1-based
    currentY,       \* drawWideLeftTable: currentY
    drawn,          \* draw calls of the table in progress / last completed
    last,           \* the last completed report operation, with its inputs
    gpc,            \* position of the grid generator
    valueFromTop,   \* grid caller's running y
    beginningPoint, \* grid caller's running top-of-separator y
    docFont,        \* font state of the grid document (font name and size)
    labelTexts,     \* generateTaxInformationTable: labelTexts
    valueTexts,     \* generateTaxInformationTable: valueTexts
    uniformCellHeight, \* generateTaxInformationTable: uniformCellHeight
    headerLabels,   \* drawPremiumBreakdown: headerLabels
    grid,           \* rows drawn by the grid table in progress / last completed
    header,         \* what generateHeader drew and returned
    footer,         \* what addHeritageLogo did
    result,         \* what the generator's caller has been given
    stream,         \* the output: the file write or the piped write stream
    file,           \* what is at the destination path: "none" | "partial" | "whole"
    calls,          \* generator calls in progress at once: position, y, fileName
    chunks,         \* chunks[c]: the chunks array of call c
    files,          \* files[name]: what fs.writeFileSync has put at the path
    quotations,     \* generateQuotationSection: filtered, by quotationNumber
    policies,       \* the policies argument of both sections, by quotationNumber
    claims,         \* generateClaimsSection: filtered, by policyID.$oid
    rates,          \* the conversionRate of each section, as <<numerator, denominator>>
    obj,            \* getValueByPath: obj
    path,           \* getValueByPath: path, as its segments between the dots
    extracted       \* what getValueByPath returned

reportVars == <<pageHeight, pageWidth, docY, pages, borders, pc, rows, idx, currentY, drawn, last>>
gridVars == <<gpc, valueFromTop, beginningPoint, docFont, labelTexts, valueTexts,
              uniformCellHeight, headerLabels, grid>>
docVars == <<header, footer, result, stream, file>>
callVars == <<calls, chunks, files>>
dataVars == <<quotations, policies, claims, rates, obj, path, extracted>>
extraVars == <<callVars, dataVars>>
vars == <<reportVars, gridVars, docVars, extraVars>>

----------------------------------------------------------------------------
(* Bounds of the model *)

PageHeight == 130      \* a short page, so that a few rows fill it
MaxPages == 3          \* the flowing operations stop adding pages here
MaxRows == 3           \* longest rows argument of drawWideLeftTable
MaxLines == 2          \* most wrapped lines of a label
MaxDelta == 3          \* largest single cursor advance between operations
MaxWidthSteps == 16    \* table widths tried: quarter units up to this many
ScenarioRows == 50     \* the long table: its number of data rows,
ScenarioY0 == 100      \*   the y it is started at,
ScenarioBelow == 700   \*   and the usable height below that y

MaxCols == 2           \* most cells of a row handed to the row renderers
MaxChain == 2          \* most rows chained in one grid
MaxTextHeight == 17    \* tallest measured text
MaxChunks == 2         \* most chunks a document emits
MaxRecords == 2        \* most records in a list handed to a report section
MaxPathLen == 2        \* most segments of a path handed to getValueByPath

(* Program constants *)

TopMargin == 20        \* margins.top: leftMargin
BottomMargin == 40     \* margins.bottom
RowHeight == 18        \* drawWideLeftTable rowHeight
HeaderHeight == 20     \* drawWideLeftTable headerHeight
BorderSlack == 10      \* the "+ 10" of the per-row page-break test
HeaderTextDrop == 5    \* header text is drawn at yPos + 5
RowTextDrop == 4       \* row text is drawn at currentY + 4
TableGap == 4          \* drawWideLeftTable returns currentY + 4
LineHeight10 == 12     \* height of one line at fontSize(10)

LineHeight11 == 13     \* height of one line at fontSize(11)
HeaderSkip == 1        \* doc.moveDown(0.1) at fontSize(11)
TableSkip == 6         \* doc.moveDown(0.5) at fontSize(10)
KVHeaderNeed == 24     \* printKeyValueTable: neededHeight = 24 + ...
KVRowNeed == 14        \*   ... + entries.length * 14; ensureSpace(doc, 14)
SummarySkip == 12      \* doc.moveDown(1.2) after a summary table, in tenths of a line
TypeTableSkip == 7     \* doc.moveDown(0.7) after a type / count table

InterRowGap == 5       \* the row renderers return endingPoint + 5
Unit == 100            \* one PDF unit, in the hundredths x is kept in
PageWidth == 59528     \* size "A4": 595.28 units wide
LeftMargin == 2000     \* leftMargin, 20 units
RightMargin == 2000    \* rightMargin, 20 units
InsidePad == 1000      \* the "+ 10" of insideWidth

MinCellHeight == 14    \* minCellHeight
RuleGap == 5           \* endingPoint = valueFromTop + height + 5
TopGapAsRows == InterRowGap
TopGap == 8            \* valueFromTop += 8 after the table's top line
CentreNudge == 1       \* the "- 1" of the centring offset
NumTaxCols == 6        \* cells of a tax table row
DefaultColumns == 6    \* insideWidth(doc) / 6; columns = 6
PremiumColumns == 2    \* drawPremiumBreakdown: 2 columns
NumPremiumRows == 4    \* coverDescriptions.length
TextGap == 5           \* drawPremiumBreakdown: 5 above and below the closing text

HeaderTop == 25        \* generateHeader: let y = 25
AddressDrop == 10      \*   y += 10
AddressStep == 15      \*   (y += 15), twice
TitleRuleDrop == 25    \*   drawLine(doc, (y += 25))
TitleDrop == 18        \*   title text at (y += 18)
HeaderReturnGap == 5   \*   return y + 5
LogoLimit == 725       \* addHeritageLogo: no logo when doc.y > 725
GridY0 == 100          \* a y at which a caller starts a grid

Undefined == -1        \* the y argument left out

NeededHeights == {14, 60, 100}
Deltas == 1..MaxDelta
StartYs == {Undefined, TopMargin}
RowSet == [label : 1..MaxLines, value : {1}]
RowLists == UNION {[1..n -> RowSet] : n \in 0..MaxRows}

----------------------------------------------------------------------------
(* The report document *)

Bottom(h) == h - BottomMargin

\* nothing of the header or the footer logo drawn, nothing handed to the
\* caller yet, the output open
NoHeader == [done |-> FALSE, logo |-> FALSE, texts |-> <<>>, rule |-> Undefined,
             title |-> Undefined, ret |-> Undefined, thrown |-> FALSE]
DocStart ==
    /\ header = NoHeader
    /\ footer = "none"
    /\ result = "none"
    /\ stream = "open"
    /\ file = "none"

\* ensureSpace's two nested tests: not enough room, and not (about) at the top
NeedsBreakNoTopGuard(y, neededHeight, h) == y + neededHeight > Bottom(h)
NeedsBreakBelowTop(y, neededHeight, h) ==
    /\ y + neededHeight > Bottom(h)
    /\ y > TopMargin
NeedsBreakFromTop(y, neededHeight, h) ==
    /\ y + neededHeight > Bottom(h)
    /\ y >= TopMargin
NeedsBreak(y, neededHeight, h) ==
    /\ y + neededHeight > Bottom(h)
    /\ y > TopMargin + 1

\* doc.addPage() followed by the pageAdded handler: the border is drawn on the
\* new page and doc.y is put at the top margin
PageAddedNoBorder(b) == Append(b, 0)
PageAdded(b) == Append(b, 1)

\* no report section has been given data, nothing has been extracted
NoRates ==
    /\ quotations = <<>>
    /\ policies = <<>>
    /\ claims = <<>>
    /\ rates = <<>>
NoExtract ==
    /\ obj = <<>>
    /\ path = <<>>
    /\ extracted = <<>>

\* no generator calls running side by side
NoCalls ==
    /\ calls = <<>>
    /\ chunks = <<>>
    /\ files = <<>>

\* prev: the ensureSpace call made right before an ensureSpace call, if any
NoOp == [op |-> "none", needed |-> 0, y0 |-> 0, pages0 |-> 0, ret |-> 0, prev |-> <<>>]

ReportIdle ==
    /\ pc = "idle"
    /\ gpc = "off"

\* the locals and the draw record of a finished table are dropped when the
\* generator moves on
TableGone ==
    /\ rows' = <<>>
    /\ idx' = 1
    /\ currentY' = 0
    /\ drawn' = <<>>

\* content drawn between layout calls moves the cursor down (doc.text, doc.moveDown)
Advance(d) ==
    /\ ReportIdle
    /\ docY + d <= pageHeight
    /\ docY' = docY + d
    /\ last' = [NoOp EXCEPT !.op = "advance", !.y0 = docY, !.pages0 = pages]
    /\ TableGone
    /\ UNCHANGED <<pageHeight, pageWidth, pages, borders, pc>>
    /\ UNCHANGED <<gridVars, docVars, extraVars>>

EnsureSpace(neededHeight) ==
    /\ ReportIdle
    /\ pages < MaxPages
    /\ IF NeedsBreak(docY, neededHeight, pageHeight)
         THEN /\ pages' = pages + 1
              /\ borders' = PageAdded(borders)
              /\ docY' = TopMargin
         ELSE UNCHANGED <<pages, borders, docY>>
    /\ last' = [NoOp EXCEPT !.op = "ensureSpace", !.needed = neededHeight,
                            !.y0 = docY, !.pages0 = pages,
                            !.prev = IF last.op = "ensureSpace"
                                       THEN <<[needed |-> last.needed, y0 |-> last.y0,
                                               pages0 |-> last.pages0]>>
                                       ELSE <<>>]
    /\ TableGone
    /\ UNCHANGED <<pageHeight, pageWidth, pc>>
    /\ UNCHANGED <<gridVars, docVars, extraVars>>

\* the table stretches from leftMargin to page width - rightMargin
TableX == LeftMargin
TableWidth(w) == w - LeftMargin - RightMargin

\* Math.floor(tableWidth * 0.75) and the rest of the table's width
Col1WidthRounded(tableWidth) == ((3 * tableWidth + 2 * Unit) \div (4 * Unit)) * Unit
Col1Width(tableWidth) == ((3 * tableWidth) \div (4 * Unit)) * Unit
Col2Width(tableWidth) == tableWidth - Col1Width(tableWidth)

\* drawHeader(yPos) and a data row: two rectangles side by side, the first
\* [x, x + w1], the second [x + w1, x + w1 + w2], both [y, y + h]; in a data
\* row the label and the value are drawn at textY, as many lines as they wrap to
HeaderAt(p, y) ==
    [kind |-> "header", page |-> p, y |-> y, row |-> 0, h |-> HeaderHeight,
     x |-> TableX, w1 |-> Col1Width(TableWidth(pageWidth)),
     w2 |-> Col2Width(TableWidth(pageWidth))]
RowAt(p, y, i) ==
    [kind |-> "row", page |-> p, y |-> y, row |-> i, h |-> RowHeight,
     x |-> TableX, w1 |-> Col1Width(TableWidth(pageWidth)),
     w2 |-> Col2Width(TableWidth(pageWidth)),
     textY |-> y + RowTextDrop,
     labelH |-> rows[i].label * LineHeight10,
     valueH |-> rows[i].value * LineHeight10]
\* the bottom border: a line from tableX to tableX + tableWidth at y
RuleNarrow(p, y) ==
    [kind |-> "rule", page |-> p, y |-> y, row |-> 0, h |-> 0,
     x |-> TableX, w1 |-> Col1Width(TableWidth(pageWidth)), w2 |-> 0]
RuleAt(p, y) ==
    [kind |-> "rule", page |-> p, y |-> y, row |-> 0, h |-> 0,
     x |-> TableX, w1 |-> TableWidth(pageWidth), w2 |-> 0]

\* the per-row page-break test of drawWideLeftTable
RowBreaks(y, h) == y + RowHeight + BorderSlack > Bottom(h)

\* drawWideLeftTable up to the loop: start y, header row, currentY += headerHeight.
\* The last doc.text of drawHeader leaves doc.y one line below the header text.
WideStart(rs, y) ==
    /\ ReportIdle
    /\ pages <= MaxPages
    /\ LET startY == IF y # Undefined THEN y ELSE docY
       IN /\ startY <= pageHeight
          /\ drawn' = <<HeaderAt(pages, startY)>>
          /\ currentY' = startY + HeaderHeight
          /\ docY' = startY + HeaderTextDrop + LineHeight10
          /\ last' = [NoOp EXCEPT !.op = "wideStart", !.y0 = startY, !.pages0 = pages]
    /\ rows' = rs
    /\ idx' = 1
    /\ pc' = "wide"
    /\ UNCHANGED <<pageHeight, pageWidth, pages, borders>>
    /\ UNCHANGED <<gridVars, docVars, extraVars>>

\* the rows a loop iteration draws at cursor y on page p for row i
WideRowDrawsNoHeader(brk, p, y, i) == <<RowAt(p, y, i)>>
WideRowDraws(brk, p, y, i) ==
    IF brk THEN <<HeaderAt(p, TopMargin), RowAt(p, y, i)>> ELSE <<RowAt(p, y, i)>>

\* where the loop variable goes after an iteration
NextIndexSkip(i, brk) == IF brk THEN i + 2 ELSE i + 1
NextIndex(i, brk) == i + 1

\* currentY after a data row drawn at y
AfterRowAsHeader(y) == y + HeaderHeight
AfterRow(y) == y + RowHeight

\* one iteration of the loop over rows: break the page and redraw the header
\* when the row and the slack do not fit, then draw row idx
WideRow ==
    /\ pc = "wide"
    /\ idx <= Len(rows)
    /\ LET brk == RowBreaks(currentY, pageHeight)
           p == IF brk THEN pages + 1 ELSE pages
           y == IF brk THEN TopMargin + HeaderHeight ELSE currentY
       IN /\ pages' = p
          /\ borders' = IF brk THEN PageAdded(borders) ELSE borders
          /\ drawn' = drawn \o WideRowDraws(brk, p, y, idx)
          /\ currentY' = AfterRow(y)
          /\ docY' = y + RowTextDrop + rows[idx].value * LineHeight10
          /\ idx' = NextIndex(idx, brk)
    /\ UNCHANGED <<pageHeight, pageWidth, pc, rows, last>>
    /\ UNCHANGED <<gridVars, docVars, extraVars>>

\* after the loop: the bottom border, and the returned y
WideEnd ==
    /\ pc = "wide"
    /\ idx > Len(rows)
    /\ drawn' = Append(drawn, RuleAt(pages, currentY))
    /\ last' = [last EXCEPT !.op = "drawWideLeftTable", !.ret = currentY + TableGap]
    /\ pc' = "idle"
    /\ UNCHANGED <<pageHeight, pageWidth, docY, pages, borders, rows, idx, currentY>>
    /\ UNCHANGED <<gridVars, docVars, extraVars>>

\* doc.moveDown(lines) at fontSize(10), lines given in tenths: the whole units
\* the cursor moves by (the fraction of a unit is dropped)
MoveDownNone(tenths) == 0
MoveDown(tenths) == (tenths * LineHeight10) \div 10

\* the caller's doc.moveDown after drawWideLeftTable, whose returned y it
\* does not use: the next content is placed at doc.y
AfterTable(tenths) ==
    /\ ReportIdle
    /\ last.op = "drawWideLeftTable"
    /\ docY' = docY + MoveDown(tenths)
    /\ last' = [last EXCEPT !.op = "moveDown"]
    /\ TableGone
    /\ UNCHANGED <<pageHeight, pageWidth, pages, borders, pc>>
    /\ UNCHANGED <<gridVars, docVars, extraVars>>

\* entries of printKeyValueTable: the value of every entry takes the same
\* number of lines
KVLists == {[i \in 1..n |-> [label |-> 1, value |-> v]] : n \in 0..MaxRows, v \in 1..MaxLines}

\* the header line and an entry line of printKeyValueTable
KVHeaderAt(p, y) == [kind |-> "kvheader", page |-> p, y |-> y, row |-> 0, h |-> LineHeight11]
KVRowAt(p, y, i) == [kind |-> "kvrow", page |-> p, y |-> y, row |-> i, h |-> LineHeight10]

\* what an entry draws at y on page p: entry i, and no header
KVRowDraws(brk, p, y, i) == <<KVRowAt(p, y, i)>>

\* printKeyValueTable up to the loop: ensureSpace for the estimated height,
\* then the header line at doc.y and moveDown(0.1)
KVStart(es) ==
    /\ ReportIdle
    /\ pages < MaxPages
    /\ LET needed == KVHeaderNeed + Len(es) * KVRowNeed
           brk == NeedsBreak(docY, needed, pageHeight)
           p == IF brk THEN pages + 1 ELSE pages
           headerY == IF brk THEN TopMargin ELSE docY
       IN /\ pages' = p
          /\ borders' = IF brk THEN PageAdded(borders) ELSE borders
          /\ drawn' = <<KVHeaderAt(p, headerY)>>
          /\ docY' = headerY + LineHeight11 + HeaderSkip
          /\ last' = [NoOp EXCEPT !.op = "kvStart", !.needed = needed,
                                  !.y0 = docY, !.pages0 = pages]
    /\ rows' = es
    /\ idx' = 1
    /\ currentY' = 0
    /\ pc' = "kv"
    /\ UNCHANGED <<pageHeight, pageWidth>>
    /\ UNCHANGED <<gridVars, docVars, extraVars>>

\* one entry: ensureSpace(doc, 14), then key and value at doc.y; the value,
\* drawn last, leaves doc.y below its last line
KVRow ==
    /\ pc = "kv"
    /\ idx <= Len(rows)
    /\ LET brk == NeedsBreak(docY, KVRowNeed, pageHeight)
           p == IF brk THEN pages + 1 ELSE pages
           rowY == IF brk THEN TopMargin ELSE docY
           draws == KVRowDraws(brk, p, rowY, idx)
       IN /\ pages' = p
          /\ borders' = IF brk THEN PageAdded(borders) ELSE borders
          /\ drawn' = drawn \o draws
          /\ docY' = draws[Len(draws)].y + rows[idx].value * LineHeight10
    /\ idx' = idx + 1
    /\ UNCHANGED <<pageHeight, pageWidth, pc, rows, currentY, last>>
    /\ UNCHANGED <<gridVars, docVars, extraVars>>

\* after the entries: moveDown(0.5)
KVEnd ==
    /\ pc = "kv"
    /\ idx > Len(rows)
    /\ docY' = docY + TableSkip
    /\ last' = [last EXCEPT !.op = "printKeyValueTable"]
    /\ pc' = "idle"
    /\ UNCHANGED <<pageHeight, pageWidth, pages, borders, rows, idx, currentY, drawn>>
    /\ UNCHANGED <<gridVars, docVars, extraVars>>

\* the end of exportReportToPDF: doc.end(), and the function returns; it has
\* run in one turn of the event loop, so the write stream it piped the
\* document to reports nothing before this
ReportEnd ==
    /\ ReportIdle
    /\ pc' = "ended"
    /\ result' = "returned"
    /\ last' = [NoOp EXCEPT !.op = "end"]
    /\ TableGone
    /\ UNCHANGED <<pageHeight, pageWidth, docY, pages, borders>>
    /\ UNCHANGED <<header, footer, stream, file>>
    /\ UNCHANGED <<gridVars, extraVars>>

\* a section of exportReportToPDF throws on the data it is given (a missing
\* field, a value that is not a list): the exception leaves the function
\* before doc.end()
ReportThrows ==
    /\ ReportIdle
    /\ pc' = "failed"
    /\ result' = "thrown"
    /\ last' = [NoOp EXCEPT !.op = "throw"]
    /\ TableGone
    /\ UNCHANGED <<pageHeight, pageWidth, docY, pages, borders>>
    /\ UNCHANGED <<header, footer, stream, file>>
    /\ UNCHANGED <<gridVars, extraVars>>

\* doc.pipe(fs.createWriteStream(filePath)), once the event loop turns after
\* the exception was caught: the write stream opens the path and is sent what
\* the document had emitted; the document never ends
ReportPipe ==
    /\ pc = "failed"
    /\ file = "none"
    /\ file' = "partial"
    /\ UNCHANGED <<header, footer, result, stream>>
    /\ UNCHANGED <<reportVars, gridVars, extraVars>>

\* what a failed write leaves at the path: nothing when the path could not
\* be opened, a part of the document when a write failed
FailedFiles == {"none", "partial"}

\* the write stream finishes, or emits "error"; exportReportToPDF has put no
\* listener on it and has handed its caller no promise
ReportStream(ok) ==
    /\ pc = "ended"
    /\ stream = "open"
    /\ stream' = IF ok THEN "written" ELSE "failed"
    /\ file' \in IF ok THEN {"whole"} ELSE FailedFiles
    /\ UNCHANGED <<header, footer, result>>
    /\ UNCHANGED <<reportVars, gridVars, extraVars>>

GridOff ==
    /\ gpc = "off"
    /\ valueFromTop = 0
    /\ beginningPoint = 0
    /\ docFont = "none"
    /\ labelTexts = <<>>
    /\ valueTexts = <<>>
    /\ uniformCellHeight = 0
    /\ headerLabels = <<>>
    /\ grid = <<>>

\* the report document after construction: one page, its border drawn, the
\* cursor at the top margin
ReportStart ==
    /\ DocStart
    /\ pageHeight = PageHeight
    /\ docY = TopMargin
    /\ pages = 1
    /\ borders = <<1>>
    /\ pc = "idle"
    /\ rows = <<>>
    /\ idx = 1
    /\ currentY = 0
    /\ drawn = <<>>
    /\ last = NoOp
    /\ GridOff
    /\ NoCalls
    /\ NoRates
    /\ NoExtract

InitReport ==
    /\ pageWidth = PageWidth
    /\ ReportStart

NextReport ==
    \/ ReportIdle /\ \E d \in Deltas : Advance(d)
    \/ ReportIdle /\ \E n \in NeededHeights : EnsureSpace(n)
    \/ ReportIdle /\ \E rs \in RowLists, y \in StartYs : WideStart(rs, y)
    \/ WideRow
    \/ WideEnd
    \/ ReportIdle /\ \E tenths \in {SummarySkip, TypeTableSkip} : AfterTable(tenths)
    \/ ReportIdle /\ \E es \in KVLists : KVStart(es)
    \/ KVRow
    \/ KVEnd
    \/ ReportEnd
    \/ \E ok \in BOOLEAN : ReportStream(ok)
    \/ ReportThrows
    \/ ReportPipe

Spec == InitReport /\ [][NextReport]_vars

\* page widths that give table widths of a quarter unit up to MaxWidthSteps
\* quarter units, and the A4 page
PageWidths ==
    {LeftMargin + RightMargin + k * (Unit \div 4) : k \in 1..MaxWidthSteps} \cup {PageWidth}
WideLists == {rs \in RowLists : \A i \in 1..Len(rs) : rs[i].label = 1}

\* drawWideLeftTable alone, on a page of any of the widths
InitWide ==
    /\ pageWidth \in PageWidths
    /\ ReportStart

NextWide ==
    \/ ReportIdle /\ \E rs \in WideLists : WideStart(rs, Undefined)
    \/ WideRow
    \/ WideEnd

SpecWide == InitWide /\ [][NextWide]_vars

\* the long table: ScenarioRows rows, started at ScenarioY0 on a page whose
\* bottom is ScenarioBelow under it
ScenarioLists == {[i \in 1..ScenarioRows |-> [label |-> n, value |-> 1]] : n \in 1..MaxLines}

InitScenario ==
    /\ DocStart
    /\ pageWidth = PageWidth
    /\ pageHeight = ScenarioY0 + ScenarioBelow + BottomMargin
    /\ docY = TopMargin
    /\ pages = 1
    /\ borders = <<1>>
    /\ pc = "idle"
    /\ rows = <<>>
    /\ idx = 1
    /\ currentY = 0
    /\ drawn = <<>>
    /\ last = NoOp
    /\ GridOff
    /\ NoCalls
    /\ NoRates
    /\ NoExtract

NextScenario ==
    \/ ReportIdle /\ \E rs \in ScenarioLists : WideStart(rs, ScenarioY0)
    \/ WideRow
    \/ WideEnd

SpecScenario == InitScenario /\ [][NextScenario]_vars

----------------------------------------------------------------------------
(* The grid rows of the receipt and the tax invoice *)

FontNames == {"Normal", "Title"}
FontStates == {"Normal9", "Title9"}

\* doc.font(font).fontSize(9)
FontState(font) == IF font = "Title" THEN "Title9" ELSE "Normal9"

\* measured heights: 0 for an empty text, one below the minimum cell height,
\* and a wrapped text taller than the minimum
Heights == {0, MinCellHeight - 1, MaxTextHeight}

\* a text, as its measured height under each font state
Texts == [FontStates -> Heights]
\* the texts of the premium breakdown are also measured at fontSize(8): a
\* text is no taller there, and empty under one font state only if under all
PremiumFontStates == {"Normal8", "Normal9", "Title9"}
PremiumTexts ==
    {t \in [PremiumFontStates -> Heights] :
        /\ t["Normal9"] = t["Title9"]
        /\ t["Normal8"] <= t["Normal9"]
        /\ t["Normal8"] = 0 <=> t["Normal9"] = 0}
\* a text that measures the same under both fonts
PlainTexts == {t \in Texts : t["Normal9"] = t["Title9"]}
TextLists == UNION {[1..n -> Texts] : n \in 0..MaxCols}
\* a six-cell row: the first cell any text, the others one plain text
TaxRows == {[i \in 1..NumTaxCols |-> IF i = 1 THEN a ELSE b] : a \in Texts, b \in PlainTexts}
FixedHeights == {MinCellHeight, MaxTextHeight}
\* the column counts the callers lay rows out in
Columns == {PremiumColumns, DefaultColumns}
GridYs == {TopMargin, GridY0}

\* doc.heightOfString(text, {width}) under the font state f in force
Measure(t, f) == t[f]

Max(a, b) == IF a > b THEN a ELSE b

\* text.reduce((max, current) => height > max ? height : max, 0)
RECURSIVE MaxMeasured(_, _, _)
MaxMeasured(text, f, n) ==
    IF n = 0 THEN 0
    ELSE LET m == MaxMeasured(text, f, n - 1)
             height == Measure(text[n], f)
         IN IF height > m THEN height ELSE m

\* generateInformationLine: the row height, floored at minCellHeight
LineHeightNoFloor(text, f) == MaxMeasured(text, f, Len(text))
LineHeightOf(text, f) == Max(MaxMeasured(text, f, Len(text)), MinCellHeight)

\* the height the draw loop measures for cell i: the first cell is measured
\* before doc.font(font).fontSize(9) has run, the others after it
DrawHeight(text, i, ambient, font) ==
    Measure(text[i], IF i = 1 THEN ambient ELSE FontState(font))

\* twice the y at which a text of the given height is drawn in a row
TextY2Clamped(y0, height, rowHeight) ==
    IF height < rowHeight THEN 2 * y0 + (rowHeight - height) ELSE 2 * y0
TextY2(y0, height, rowHeight) ==
    IF height # rowHeight
      THEN 2 * y0 + (rowHeight - height) - 2 * CentreNudge
      ELSE 2 * y0

\* drawVerticalLine(doc, endingPoint - beginningPoint, x, beginningPoint)
SeparatorFromRowTop(i, y0, from, to) == [col |-> i, from |-> y0, to |-> y0 + (to - y0)]
Separator(i, y0, from, to) == [col |-> i, from |-> from, to |-> from + (to - from)]

\* insideWidth(doc), and the width of a column of a row laid out in the
\* given number of columns
InsideWidth(w) == w - (LeftMargin + RightMargin + InsidePad)
ColumnWidth(w, columns) == InsideWidth(w) \div columns

\* x of the separator left of column i (0-based): leftMargin + width * i
SeparatorX(i, width) == LeftMargin + width * i

\* the loop over the columns that skips i === 0
SeparatorColsAll(n) == 0..(n - 1)
SeparatorCols(n) == 1..(n - 1)

\* what a row renderer returns
ReturnsAboveRule(y0, endingPoint) == <<endingPoint - InterRowGap, endingPoint>>
ReturnsRowTop(y0, endingPoint) == <<endingPoint + InterRowGap, y0>>
Returns(y0, endingPoint) == <<endingPoint + InterRowGap, endingPoint>>

\* the font state in force when the draw loop measures cell i: set by the
\* doc.font(font).fontSize(9) that precedes the drawing of the cell before
MeasuredIn(i, ambient, font) == IF i = 1 THEN ambient ELSE FontState(font)

\* the drawing common to both row renderers, for a row of the given height
\* laid out in the given number of columns; sized is the font state under
\* which the height was measured ("none": the renderer did not measure it)
DrawRow(fn, text, y0, from, font, ambient, height, columns, sized) ==
    LET endingPoint == y0 + height + RuleGap
        cols == SeparatorCols(Len(text))
        width == ColumnWidth(pageWidth, columns)
    IN [fn |-> fn, cells |-> text, top |-> y0, beginning |-> from,
        font |-> font, ambient |-> ambient, height |-> height,
        heights |-> [i \in 1..Len(text) |-> DrawHeight(text, i, ambient, font)],
        texts2 |-> [i \in 1..Len(text) |->
                      TextY2(y0, DrawHeight(text, i, ambient, font), height)],
        seps |-> {Separator(i, y0, from, endingPoint) : i \in cols},
        rule |-> endingPoint,
        ret |-> Returns(y0, endingPoint),
        columns |-> columns,
        xs |-> [i \in cols |-> SeparatorX(i, width)],
        ruleFrom |-> LeftMargin,
        ruleTo |-> pageWidth - RightMargin,
        measured |-> [i \in 1..Len(text) |-> MeasuredIn(i, ambient, font)],
        drawnIn |-> FontState(font),
        sized |-> sized]

generateInformationLine(text, y0, from, font, ambient) ==
    DrawRow("line", text, y0, from, font, ambient, LineHeightOf(text, ambient),
            DefaultColumns, ambient)

generateInformationLineWithFixedHeight(text, y0, from, font, ambient, fixedHeight, columns) ==
    DrawRow("fixed", text, y0, from, font, ambient, fixedHeight, columns, "none")

\* the caller measured the row's height itself, under font state f
Sized(r, f) == [r EXCEPT !.sized = f]

\* the font state a row renderer leaves behind
FontAfter(text, font, ambient) == IF Len(text) > 0 THEN FontState(font) ELSE ambient

\* a row renderer has run: its draw calls are recorded, the font it set stays
Rendered(r) ==
    /\ docFont' = FontAfter(r.cells, r.font, r.ambient)
    /\ grid' = Append(grid, r)
    /\ UNCHANGED <<valueFromTop, beginningPoint>>

\* a row already handed back is kept by its extent only
Extent(r) == [top |-> r.top, beginning |-> r.beginning, rule |-> r.rule]

\* where the caller continues after the assignment
AfterAssign(at) ==
    CASE at = "chainRet" -> "chain"
      [] at = "taxLabelsRet" -> "taxValues"
      [] at = "taxValuesRet" -> "taxDone"
      [] at = "premHeaderRet" -> "premRow"
      [] at = "premRowRet" -> IF Len(grid) <= NumPremiumRows THEN "premRow" ELSE "premText"

\* the caller's [valueFromTop, beginningPoint] = <row renderer>(...)
Assign ==
    /\ gpc \in {"chainRet", "taxLabelsRet", "taxValuesRet", "premHeaderRet", "premRowRet"}
    /\ valueFromTop' = grid[Len(grid)].ret[1]
    /\ beginningPoint' = grid[Len(grid)].ret[2]
    /\ grid' = [i \in 1..Len(grid) |-> Extent(grid[i])]
    /\ gpc' = AfterAssign(gpc)
    /\ UNCHANGED <<docFont, labelTexts, valueTexts, uniformCellHeight, headerLabels>>
    /\ UNCHANGED <<reportVars, docVars, extraVars>>

\* the caller is between grids / inside a grid that may take another row
GridReady == gpc = "ready"
GridChain ==
    /\ gpc = "chain"
    /\ Len(grid) < MaxChain

\* a caller opens a grid: top line at y, separators start there, content 8 below
GridTop(y) ==
    /\ GridReady
    /\ beginningPoint' = y
    /\ valueFromTop' = y + TopGap
    /\ gpc' = "chain"
    /\ grid' = <<>>
    /\ UNCHANGED <<docFont, labelTexts, valueTexts, uniformCellHeight, headerLabels>>
    /\ UNCHANGED <<reportVars, docVars, extraVars>>

InfoLine(text, font) ==
    /\ GridChain
    /\ Rendered(generateInformationLine(text, valueFromTop, beginningPoint, font, docFont))
    /\ gpc' = "chainRet"
    /\ UNCHANGED <<labelTexts, valueTexts, uniformCellHeight, headerLabels>>
    /\ UNCHANGED <<reportVars, docVars, extraVars>>

FixedLine(text, font, fixedHeight, columns) ==
    /\ GridChain
    /\ Rendered(generateInformationLineWithFixedHeight(
                 text, valueFromTop, beginningPoint, font, docFont, fixedHeight, columns))
    /\ gpc' = "chainRet"
    /\ UNCHANGED <<labelTexts, valueTexts, uniformCellHeight, headerLabels>>
    /\ UNCHANGED <<reportVars, docVars, extraVars>>

\* generateTaxInformationTable up to the first row: top line, the two measured
\* maxima (labels under Title 9, values under Normal 9), the uniform height.
\* The font state left in force is Normal 9.
TaxStart(y, labels, values) ==
    /\ GridReady
    /\ beginningPoint' = y
    /\ valueFromTop' = y + TopGap
    /\ labelTexts' = labels
    /\ valueTexts' = values
    /\ uniformCellHeight' = Max(LineHeightOf(labels, "Title9"), LineHeightOf(values, "Normal9"))
    /\ docFont' = "Normal9"
    /\ grid' = <<>>
    /\ gpc' = "taxLabels"
    /\ UNCHANGED headerLabels
    /\ UNCHANGED <<reportVars, docVars, extraVars>>

TaxLabels ==
    /\ gpc = "taxLabels"
    /\ Rendered(Sized(generateInformationLineWithFixedHeight(
                 labelTexts, valueFromTop, beginningPoint, "Title", docFont,
                 uniformCellHeight, DefaultColumns), "Title9"))
    /\ gpc' = "taxLabelsRet"
    /\ UNCHANGED <<labelTexts, valueTexts, uniformCellHeight, headerLabels>>
    /\ UNCHANGED <<reportVars, docVars, extraVars>>

TaxValues ==
    /\ gpc = "taxValues"
    /\ Rendered(Sized(generateInformationLineWithFixedHeight(
                 valueTexts, valueFromTop, beginningPoint, "Normal", docFont,
                 uniformCellHeight, DefaultColumns), "Normal9"))
    /\ gpc' = "taxValuesRet"
    /\ UNCHANGED <<labelTexts, valueTexts, uniformCellHeight, headerLabels>>
    /\ UNCHANGED <<reportVars, docVars, extraVars>>

\* drawPremiumBreakdown up to the header row: top line, the two maxima
\* measured under Normal 8, the uniform height.  The descriptions are one
\* text, the details the class of insurance and an amount text.
PremStart(y, head, desc, class, amount) ==
    /\ GridReady
    /\ beginningPoint' = y
    /\ valueFromTop' = y + TopGap
    /\ headerLabels' = <<head, head>>
    /\ labelTexts' = [i \in 1..NumPremiumRows |-> desc]
    /\ valueTexts' = [i \in 1..NumPremiumRows |-> IF i = 1 THEN class ELSE amount]
    /\ uniformCellHeight' =
          Max(LineHeightOf([i \in 1..NumPremiumRows |-> desc], "Normal8"),
              LineHeightOf([i \in 1..NumPremiumRows |-> IF i = 1 THEN class ELSE amount],
                           "Normal8"))
    /\ docFont' = "Normal8"
    /\ grid' = <<>>
    /\ gpc' = "premHeader"
    /\ UNCHANGED <<reportVars, docVars, extraVars>>

PremHeader ==
    /\ gpc = "premHeader"
    /\ Rendered(Sized(generateInformationLineWithFixedHeight(
                 headerLabels, valueFromTop, beginningPoint, "Title", docFont,
                 uniformCellHeight, PremiumColumns), "Normal8"))
    /\ gpc' = "premHeaderRet"
    /\ UNCHANGED <<labelTexts, valueTexts, uniformCellHeight, headerLabels>>
    /\ UNCHANGED <<reportVars, docVars, extraVars>>

\* a content row: doc.font("Normal").fontSize(8), the row's own height
\* measured under it, the last row in bold
PremRow ==
    /\ gpc = "premRow"
    /\ LET i == Len(grid)
           rowData == <<labelTexts[i], valueTexts[i]>>
           rowHeight == LineHeightOf(rowData, "Normal8")
           fontStyle == IF i = NumPremiumRows THEN "Title" ELSE "Normal"
       IN Rendered(Sized(generateInformationLineWithFixedHeight(
                     rowData, valueFromTop, beginningPoint, fontStyle, "Normal8",
                     rowHeight, PremiumColumns), "Normal8"))
    /\ gpc' = "premRowRet"
    /\ UNCHANGED <<labelTexts, valueTexts, uniformCellHeight, headerLabels>>
    /\ UNCHANGED <<reportVars, docVars, extraVars>>

\* the closing text under the table, measured after it is drawn, under the
\* font it was drawn in
PremText(textHeight) ==
    /\ gpc = "premText"
    /\ docFont' = "Title8"
    /\ valueFromTop' = valueFromTop + TextGap + textHeight + TextGap
    /\ gpc' = "premDone"
    /\ UNCHANGED <<beginningPoint, labelTexts, valueTexts, uniformCellHeight,
                   headerLabels, grid>>
    /\ UNCHANGED <<reportVars, docVars, extraVars>>

\* doc.image(logoPath, ...): draws the logo, or throws when the file is missing
DocImage(logoOk) == IF logoOk THEN "drawn" ELSE "throws"

\* generateHeader: the logo inside try/catch, three address lines, the rule,
\* the title; returns the y after the header
GenerateHeaderNoCatch(logoOk) ==
    IF DocImage(logoOk) = "throws"
      THEN [NoHeader EXCEPT !.done = TRUE, !.thrown = TRUE]
      ELSE LET y1 == HeaderTop + AddressDrop
               y2 == y1 + AddressStep
               y3 == y2 + AddressStep
               y4 == y3 + TitleRuleDrop
               y5 == y4 + TitleDrop
           IN [done |-> TRUE, logo |-> TRUE, texts |-> <<y1, y2, y3>>, rule |-> y4,
               title |-> y5, ret |-> y5 + HeaderReturnGap, thrown |-> FALSE]
GenerateHeader(logoOk) ==
    LET y1 == HeaderTop + AddressDrop
        y2 == y1 + AddressStep
        y3 == y2 + AddressStep
        y4 == y3 + TitleRuleDrop
        y5 == y4 + TitleDrop
    IN [done |-> TRUE, logo |-> DocImage(logoOk) = "drawn", texts |-> <<y1, y2, y3>>,
        rule |-> y4, title |-> y5, ret |-> y5 + HeaderReturnGap, thrown |-> FALSE]

\* addHeritageLogo: nothing below y 725, else the logo inside try/catch
AddHeritageLogo(logoOk, y) ==
    IF y > LogoLimit THEN "no room"
    ELSE IF DocImage(logoOk) = "throws" THEN "skipped" ELSE "drawn"

LogoYs == {GridY0, LogoLimit + 1}

\* an exception inside the async generator rejects the promise it returns
Throws ==
    /\ gpc' = "failed"
    /\ result' = "rejected"

\* the generator draws the header, then the sections above the grid
Header(logoOk) ==
    /\ gpc = "new"
    /\ header' = GenerateHeader(logoOk)
    /\ IF header'.thrown
         THEN Throws
         ELSE /\ gpc' = "ready"
              /\ UNCHANGED result
    /\ UNCHANGED <<footer, stream, file>>
    /\ UNCHANGED <<valueFromTop, beginningPoint, docFont, labelTexts, valueTexts,
                   uniformCellHeight, headerLabels, grid>>
    /\ UNCHANGED <<reportVars, extraVars>>

\* the grid is complete (a chain may end after any row)
GridDone == gpc \in {"chain", "taxDone", "premDone"}

\* the receipt's addHeritageLogo(doc), with doc.y at y
FooterLogo(logoOk, y) ==
    /\ GridDone
    /\ footer' = AddHeritageLogo(logoOk, y)
    /\ IF footer' = "thrown"
         THEN Throws
         ELSE /\ gpc' = "closing"
              /\ UNCHANGED result
    /\ UNCHANGED <<header, stream, file>>
    /\ UNCHANGED <<valueFromTop, beginningPoint, docFont, labelTexts, valueTexts,
                   uniformCellHeight, headerLabels, grid>>
    /\ UNCHANGED <<reportVars, extraVars>>

\* the table functions have returned: their locals are gone
GridGone ==
    /\ valueFromTop' = 0
    /\ beginningPoint' = 0
    /\ labelTexts' = <<>>
    /\ valueTexts' = <<>>
    /\ headerLabels' = <<>>
    /\ uniformCellHeight' = 0
    /\ grid' = <<>>

\* await drawQRCodeAt...(doc, ...): QRCode.toBuffer resolves and the code is
\* drawn, or it rejects and the generator's promise rejects with it; the tax
\* invoice gets here without a footer logo
DrawQRCode(qrOk) ==
    /\ GridDone \/ gpc = "closing"
    /\ IF qrOk
         THEN /\ gpc' = "qr"
              /\ UNCHANGED result
         ELSE Throws
    /\ GridGone
    /\ UNCHANGED <<docFont, header, footer, stream, file>>
    /\ UNCHANGED <<reportVars, extraVars>>

\* drawPageBorder, addFooter, doc.end() and the returned promise, with its
\* "end" and "error" listeners
DocEnd ==
    /\ gpc = "qr"
    /\ gpc' = "ended"
    /\ result' = "pending"
    /\ GridGone
    /\ UNCHANGED <<docFont, header, footer, stream, file>>
    /\ UNCHANGED <<reportVars, extraVars>>

\* the "end" listener: fs.writeFileSync inside try/catch, resolve or reject
WriteFile(ok) ==
    /\ gpc = "ended"
    /\ result = "pending"
    /\ stream' = IF ok THEN "written" ELSE "failed"
    /\ result' = IF ok THEN "resolved" ELSE "rejected"
    /\ file' \in IF ok THEN {"whole"} ELSE FailedFiles
    /\ UNCHANGED <<header, footer>>
    /\ UNCHANGED <<reportVars, gridVars, extraVars>>

\* the "error" listener: reject
DocError ==
    /\ gpc = "ended"
    /\ result = "pending"
    /\ stream' = "failed"
    /\ result' = "rejected"
    /\ UNCHANGED <<header, footer, file>>
    /\ UNCHANGED <<reportVars, gridVars, extraVars>>

ReportOff ==
    /\ pageHeight = PageHeight
    /\ pageWidth = PageWidth
    /\ docY = TopMargin
    /\ pages = 1
    /\ borders = <<1>>
    /\ pc = "off"
    /\ rows = <<>>
    /\ idx = 1
    /\ currentY = 0
    /\ drawn = <<>>
    /\ last = NoOp

\* the receipt / invoice document before a grid is drawn; the font in force is
\* whatever the drawing above the grid left
InitGrid ==
    /\ gpc = "new"
    /\ valueFromTop = 0
    /\ beginningPoint = 0
    /\ docFont \in FontStates
    /\ labelTexts = <<>>
    /\ valueTexts = <<>>
    /\ uniformCellHeight = 0
    /\ headerLabels = <<>>
    /\ grid = <<>>
    /\ ReportOff
    /\ DocStart
    /\ NoCalls
    /\ NoRates
    /\ NoExtract

NextGrid ==
    \/ GridReady /\ \E y \in GridYs : GridTop(y)
    \/ GridChain /\ \E text \in TextLists, font \in FontNames : InfoLine(text, font)
    \/ GridChain /\ \E text \in TextLists, font \in FontNames, f \in FixedHeights,
                          columns \in Columns : FixedLine(text, font, f, columns)
    \/ GridReady /\ \E y \in GridYs, labels \in TaxRows, values \in TaxRows :
                       TaxStart(y, labels, values)
    \/ TaxLabels
    \/ TaxValues
    \/ Assign
    \/ GridReady /\ \E y \in GridYs, head \in PremiumTexts, desc \in PremiumTexts,
                          class \in PremiumTexts, amount \in PremiumTexts :
                       PremStart(y, head, desc, class, amount)
    \/ PremHeader
    \/ PremRow
    \/ \E textHeight \in Heights \ {0} : PremText(textHeight)
    \/ \E logoOk \in BOOLEAN : Header(logoOk)
    \/ GridDone /\ \E logoOk \in BOOLEAN, y \in LogoYs : FooterLogo(logoOk, y)
    \/ \E qrOk \in BOOLEAN : DrawQRCode(qrOk)
    \/ DocEnd
    \/ \E ok \in BOOLEAN : WriteFile(ok)
    \/ DocError

SpecGrid == InitGrid /\ [][NextGrid]_vars

\* either document
SpecAll == (InitReport \/ InitGrid) /\ [][NextReport \/ NextGrid]_vars

----------------------------------------------------------------------------
(* Two generator calls running side by side *)

\* the calls, the file names they are given, and what a call's data adds to
\* the y below the header
Calls == {"first", "second"}
FileNames == {"a.pdf", "b.pdf"}
NoFile == [by |-> "none", data |-> <<>>]

\* the chunks array the closures of call c push to and read: the const chunks
\* of that call
ChunksShared(c) == "first"
ChunksOf(c) == c

\* a call up to its await: new PDFDocument, const chunks = [], the "data"
\* listener, generateHeader and the sections under it, which leave the call's
\* let y below them, then await drawQRCodeAt...
CallLayout(c) ==
    /\ calls[c].at = "new"
    /\ calls' = [calls EXCEPT ![c].at = "await",
                              ![c].y = GenerateHeader(TRUE).ret + calls[c].below]
    /\ chunks' = [chunks EXCEPT ![ChunksOf(c)] = <<>>]
    /\ UNCHANGED files
    /\ UNCHANGED <<reportVars, gridVars, docVars, dataVars>>

\* doc.on("data", (chunk) => chunks.push(chunk)): the document of call c
\* emits its next chunk, while the call awaits or after doc.end()
CallData(c) ==
    /\ calls[c].at \in {"await", "ending"}
    /\ calls[c].emitted < MaxChunks
    /\ calls' = [calls EXCEPT ![c].emitted = @ + 1]
    /\ chunks' = [chunks EXCEPT ![ChunksOf(c)] =
                      Append(@, [doc |-> c, n |-> calls[c].emitted + 1])]
    /\ UNCHANGED files
    /\ UNCHANGED <<reportVars, gridVars, docVars, dataVars>>

\* the await ends: the QR code is drawn, then drawPageBorder, addFooter,
\* doc.end() and the promise with its listeners; or QRCode.toBuffer rejected
CallResume(c, qrOk) ==
    /\ calls[c].at = "await"
    /\ calls' = [calls EXCEPT ![c].at = IF qrOk THEN "ending" ELSE "failed"]
    /\ UNCHANGED <<chunks, files>>
    /\ UNCHANGED <<reportVars, gridVars, docVars, dataVars>>

\* the "end" listener, after the last chunk:
\* fs.writeFileSync(localPath, Buffer.concat(chunks))
CallEnd(c) ==
    /\ calls[c].at = "ending"
    /\ calls[c].emitted >= 1
    /\ calls' = [calls EXCEPT ![c].at = "done"]
    /\ files' = [files EXCEPT ![calls[c].fileName] =
                      [by |-> c, data |-> chunks[ChunksOf(c)]]]
    /\ UNCHANGED chunks
    /\ UNCHANGED <<reportVars, gridVars, docVars, dataVars>>

\* both calls have been made, each with its file name and its data
InitPair ==
    /\ calls \in [Calls -> {[at |-> "new", y |-> 0, fileName |-> f, below |-> d, emitted |-> 0] :
                               f \in FileNames, d \in Deltas}]
    /\ chunks = [c \in Calls |-> <<>>]
    /\ files = [f \in FileNames |-> NoFile]
    /\ NoRates
    /\ NoExtract
    /\ ReportOff
    /\ GridOff
    /\ DocStart

NextPair ==
    \/ \E c \in Calls : CallLayout(c)
    \/ \E c \in Calls : CallData(c)
    \/ \E c \in Calls, qrOk \in BOOLEAN : CallResume(c, qrOk)
    \/ \E c \in Calls : CallEnd(c)

SpecPair == InitPair /\ [][NextPair]_vars

----------------------------------------------------------------------------
(* The conversion rates of the report sections *)

\* what getPath gives for a record's quotationNumber or policyID.$oid: a
\* number / id, or nothing ("": the field is missing or empty, which filter
\* (Boolean) and the test qn && ... drop)
QuotationNumbers == {"", "Q1", "Q2"}
PolicyIds == {"", "P1", "P2"}
NumberLists == UNION {[1..n -> QuotationNumbers] : n \in 0..MaxRecords}
IdLists == UNION {[1..n -> PolicyIds] : n \in 0..MaxRecords}

\* new Set(list.filter(Boolean))
Truthy(list) == {list[i] : i \in 1..Len(list)} \ {""}

\* denominator > 0 ? (size / denominator) * 100 : 0, as a fraction
RateOf(size, denominator) ==
    IF denominator > 0 THEN <<size * 100, denominator>> ELSE <<0, 1>>

\* generateQuotationSection: the quotation numbers of the filtered quotations,
\* those of them a policy carries, and their share of filtered.length
QuotationRate(filtered, pols) ==
    LET quotedNums == Truthy(filtered)
        convertedNums == {qn \in Truthy(pols) : qn \in quotedNums}
    IN RateOf(Cardinality(convertedNums), Len(filtered))

\* generateClaimsSection: the policy ids the filtered claims name, and their
\* share of policies.length
ClaimsRate(filtered, pols) ==
    LET policyIdsWithClaims == Truthy(filtered)
    IN RateOf(Cardinality(policyIdsWithClaims), Len(pols))

NotComputed == <<>>

QuotationSection ==
    /\ rates.quotation = NotComputed
    /\ rates' = [rates EXCEPT !.quotation = QuotationRate(quotations, policies)]
    /\ UNCHANGED <<quotations, policies, claims, obj, path, extracted>>
    /\ UNCHANGED <<reportVars, gridVars, docVars, callVars>>

ClaimsSection ==
    /\ rates.claims = NotComputed
    /\ rates' = [rates EXCEPT !.claims = ClaimsRate(claims, policies)]
    /\ UNCHANGED <<quotations, policies, claims, obj, path, extracted>>
    /\ UNCHANGED <<reportVars, gridVars, docVars, callVars>>

\* generateFullReport has been handed its lists
InitRates ==
    /\ quotations \in NumberLists
    /\ policies \in NumberLists
    /\ claims \in IdLists
    /\ rates = [quotation |-> NotComputed, claims |-> NotComputed]
    /\ NoExtract
    /\ NoCalls
    /\ ReportOff
    /\ GridOff
    /\ DocStart

NextRates ==
    \/ QuotationSection
    \/ ClaimsSection

SpecRates == InitRates /\ [][NextRates]_vars

----------------------------------------------------------------------------
(* getValueByPath *)

\* a JavaScript value: its type tag, its text if it is a primitive, its own
\* properties if it is an object
Val(t, v, f) == [t |-> t, v |-> v, f |-> f]
Str(s) == Val("string", s, <<>>)
Num(s) == Val("number", s, <<>>)
Null == Val("null", "null", <<>>)
Undef == Val("undefined", "undefined", <<>>)
Fn(name) == Val("function", name, <<>>)
Object(f) == Val("object", "", f)
Thrown == Val("thrown", "TypeError", <<>>)

\* typeof x
TypeOf(x) == IF x.t = "null" THEN "object" ELSE x.t

\* what every object inherits from Object.prototype
ObjectPrototype == {"constructor", "hasOwnProperty", "toString", "valueOf"}

\* current[part]: an own property, else an inherited one, else undefined
Lookup(current, part) ==
    IF part \in DOMAIN current.f THEN current.f[part]
    ELSE IF part \in ObjectPrototype
      THEN Fn(IF part = "constructor" THEN "Object" ELSE part)
    ELSE Undef

\* JSON.stringify(current) and String(current)
Stringify(current) == Val("string", "json", current.f)
StringOf(current) ==
    IF current.t = "function" THEN Str("function " \o current.v \o "() { [native code] }")
    ELSE Str(current.v)

\* the loop over the parts, from part i on, and what follows it
RECURSIVE Walk(_, _, _)
Walk(current, parts, i) ==
    IF i > Len(parts)
      THEN IF current.t = "object" THEN Stringify(current)
           ELSE IF current.t \in {"null", "undefined"} THEN Str("")
           ELSE StringOf(current)
    ELSE IF current.t \in {"null", "undefined"} THEN Str("")
    ELSE IF TypeOf(current) = "object"
      THEN IF Lookup(current, "hasOwnProperty").t # "function" THEN Thrown
           ELSE IF "$oid" \in DOMAIN current.f
             THEN IF parts[i] # "$oid" THEN Str("")
                  ELSE Walk(current.f["$oid"], parts, i + 1)
           ELSE IF "$date" \in DOMAIN current.f
             THEN IF parts[i] # "$date" THEN Str("")
                  ELSE Walk(current.f["$date"], parts, i + 1)
           ELSE Walk(Lookup(current, parts[i]), parts, i + 1)
    ELSE Str("")

\* a path is kept as its dot-free segments (path.split(".")); the empty path
\* is the one empty segment
EmptyPath == <<"">>

getValueByPath(o, p) ==
    IF o.t \in {"null", "undefined"} \/ p = EmptyPath THEN Str("")
    ELSE Walk(o, p, 1)

\* records: an _id that is an ObjectID wrapper, a date wrapper, null or a
\* plain string; a name; vehicle information that is an object, null, or
\* left out; and an object with a key named like a method of Object
Ids == {Object("$oid" :> Str("64a1")), Object("$date" :> Str("2025-08-01")), Null, Str("64a1")}
Names == {Str("Asha"), Num("7"), Null}
Vehicles == {Object("make" :> Str("Toyota")), Null,
             Object(("make" :> Str("Toyota")) @@ ("hasOwnProperty" :> Str("yes")))}
Records ==
    {Object(("_id" :> i) @@ ("insuredName" :> n) @@ ("vehicleInfo" :> v)) :
        i \in Ids, n \in Names, v \in Vehicles}
    \cup {Object(("_id" :> i) @@ ("insuredName" :> n)) : i \in Ids, n \in Names}
    \cup {Null}
Segments == {"_id", "insuredName", "vehicleInfo", "make", "$oid", "$date", "constructor", ""}
Paths == UNION {[1..n -> Segments] : n \in 1..MaxPathLen}

NotExtracted == Val("none", "", <<>>)

\* exportToExcel: one cell, getValueByPath(record, m.key)
Extract ==
    /\ extracted = NotExtracted
    /\ extracted' = getValueByPath(obj, path)
    /\ UNCHANGED <<quotations, policies, claims, rates, obj, path>>
    /\ UNCHANGED <<reportVars, gridVars, docVars, callVars>>

InitExtract ==
    /\ obj \in Records
    /\ path \in Paths
    /\ extracted = NotExtracted
    /\ NoRates
    /\ NoCalls
    /\ ReportOff
    /\ GridOff
    /\ DocStart

NextExtract == Extract

SpecExtract == InitExtract /\ [][NextExtract]_vars

----------------------------------------------------------------------------
(* Properties of the report document *)

Ensured == last.op = "ensureSpace"
EnsureAdded == pages = last.pages0 + 1
EnsureLeft ==
    /\ pages = last.pages0
    /\ docY = last.y0

\* C1 as stated: ensureSpace adds a page if and only if the needed height does
\* not fit below the cursor and the cursor is not at the top margin; after a
\* break the cursor is at the top margin, otherwise nothing changes.
C1_AsStated ==
    Ensured =>
        /\ EnsureAdded <=> (/\ last.y0 + last.needed > pageHeight - BottomMargin
                            /\ last.y0 # TopMargin)
        /\ EnsureAdded => docY = TopMargin
        /\ ~EnsureAdded => EnsureLeft

\* C1 amended: ensureSpace adds a page if and only if the needed height does
\* not fit below the cursor and the cursor is more than one unit below the top
\* margin; after a break the cursor is at the top margin, otherwise no page is
\* added and the cursor is unchanged.
C1_EnsureSpace ==
    Ensured =>
        /\ EnsureAdded <=> (/\ last.y0 + last.needed > pageHeight - BottomMargin
                            /\ last.y0 > TopMargin + 1)
        /\ EnsureAdded => docY = TopMargin
        /\ ~EnsureAdded => EnsureLeft

\* an ensureSpace call that broke the page
C1_Witness ==
    /\ Ensured
    /\ EnsureAdded
    /\ docY = TopMargin

IsRow(k) == drawn[k].kind = "row"
IsHeader(k) == drawn[k].kind = "header"
RowDraws == {k \in 1..Len(drawn) : IsRow(k)}
HeaderDraws == {k \in 1..Len(drawn) : IsHeader(k)}

\* C2: in drawWideLeftTable every page that carries a data row carries the
\* header, drawn earlier and ending at or above that page's first data row;
\* every header after the first is on a fresh page, at the top margin.
C2_HeaderOnEveryPage ==
    /\ \A k \in RowDraws :
         \E j \in HeaderDraws :
            /\ j < k
            /\ drawn[j].page = drawn[k].page
            /\ drawn[j].y + drawn[j].h <= drawn[k].y
            /\ \A m \in RowDraws : drawn[m].page = drawn[k].page => j < m
    /\ \A j \in HeaderDraws :
         j > 1 => /\ drawn[j].y = TopMargin
                  /\ drawn[j].page = drawn[j - 1].page + 1

\* a finished table with a data row on a continuation page
C2_Witness ==
    /\ last.op = "drawWideLeftTable"
    /\ \E k \in RowDraws : drawn[k].page > drawn[1].page

\* the data rows drawn so far, in drawing order
RECURSIVE RowsOf(_)
RowsOf(d) ==
    IF d = <<>> THEN <<>>
    ELSE IF d[1].kind = "row" THEN <<d[1].row>> \o RowsOf(Tail(d)) ELSE RowsOf(Tail(d))

\* C3: pagination of drawWideLeftTable is transparent: the rows drawn are
\* always rows 1..i-1 in input order, each once, whatever page breaks occurred;
\* the loop index never passes n + 1, an unfinished table can always take its
\* next step, and the finished table has drawn exactly rows 1..n.
C3_RowsOnceInOrder ==
    /\ pc = "wide" =>
         /\ RowsOf(drawn) = [k \in 1..(idx - 1) |-> k]
         /\ idx <= Len(rows) + 1
         /\ ENABLED (WideRow \/ WideEnd)
    /\ last.op = "drawWideLeftTable" =>
         /\ RowsOf(drawn) = [k \in 1..Len(rows) |-> k]
         /\ Cardinality(RowDraws) = Len(rows)

\* a finished table of at least two rows that broke the page before its last row
C3_Witness ==
    /\ last.op = "drawWideLeftTable"
    /\ Len(rows) >= 2
    /\ \E k \in RowDraws : drawn[k].row = Len(rows) /\ drawn[k].page > drawn[1].page

\* the two-rectangle draws (header rows and data rows) of the table
Boxes == {k \in 1..Len(drawn) : drawn[k].kind \in {"header", "row"}}
UsableWidth == pageWidth - LeftMargin - RightMargin

\* C12: in drawWideLeftTable, for every table width, the boundary between the
\* label and the value column is at tableX + floor(0.75 * tableWidth) -- a
\* whole number of units b with b <= 0.75 * tableWidth < b + 1 -- and
\* col1Width + col2Width = tableWidth, the second rectangle starting where
\* the first ends, in the header row and in every data row.
C12_ColumnSplit ==
    \A k \in Boxes :
        LET b == drawn[k].w1
        IN /\ drawn[k].x = LeftMargin
           /\ b % Unit = 0
           /\ 4 * b <= 3 * UsableWidth
           /\ 3 * UsableWidth < 4 * (b + Unit)
           /\ drawn[k].w1 + drawn[k].w2 = UsableWidth
           /\ drawn[k].w2 >= 0

\* a data row drawn on a page whose table width times 0.75 is not whole
C12_Witness ==
    /\ (3 * UsableWidth) % (4 * Unit) # 0
    /\ \E k \in Boxes : drawn[k].kind = "row"

\* the table was started at a y between the top margin and the page bottom
StartedWithinPage ==
    /\ last.op \in {"wideStart", "drawWideLeftTable"}
    /\ last.y0 >= TopMargin
    /\ last.y0 <= Bottom(pageHeight)

\* C13: throughout drawWideLeftTable, started at a y within the page, the
\* cursor satisfies topMargin <= currentY <= pageHeight - bottomMargin, and
\* every rectangle drawn (header rows and data rows) lies entirely between
\* the top margin and the page bottom.
C13_WithinPage ==
    StartedWithinPage =>
        /\ pc = "wide" =>
             /\ currentY >= TopMargin
             /\ currentY <= Bottom(pageHeight)
        /\ \A k \in Boxes :
             /\ drawn[k].y >= TopMargin
             /\ drawn[k].y + drawn[k].h <= Bottom(pageHeight)

\* the data rows drawn on the page the table was started on
FirstPageRows == {k \in RowDraws : drawn[k].page = drawn[1].page}
ScenarioDone ==
    /\ last.op = "drawWideLeftTable"
    /\ Len(rows) = ScenarioRows
    /\ last.y0 = ScenarioY0
\* the header drawn after the first page break is at the top margin of the
\* next page, and the row after it is the one following the first page's rows
ContinuationHeader(n) ==
    /\ drawn[n + 2].kind = "header"
    /\ drawn[n + 2].page = drawn[1].page + 1
    /\ drawn[n + 2].y = TopMargin
    /\ drawn[n + 3].kind = "row"
    /\ drawn[n + 3].row = n + 1

\* C14 as stated: for the 50-row table started at y0 = 100 with 700 usable
\* units below y0, exactly 33 data rows are drawn on the first page, and the
\* header is redrawn at the top margin of the continuation page.
C14_AsStated ==
    ScenarioDone =>
        /\ Cardinality(FirstPageRows) = 33
        /\ ContinuationHeader(33)

\* C14 amended: for that table the first page break happens after data row 37
\* (the header takes 20 of the 700 units and each row must leave 10 units of
\* slack: floor((700 - 20 - 10) / 18) = 37): exactly data rows 1..37 are drawn
\* on the first page, and the header is redrawn at the top margin of the
\* continuation page before row 38.
C14_ScenarioBreak ==
    ScenarioDone =>
        /\ Cardinality(FirstPageRows) = 37
        /\ {drawn[k].row : k \in FirstPageRows} = 1..37
        /\ ContinuationHeader(37)

\* the long table is finished
C14_Witness ==
    /\ ScenarioDone
    /\ Cardinality(RowDraws) = ScenarioRows

Rules == {k \in 1..Len(drawn) : drawn[k].kind = "rule"}

\* C15: drawWideLeftTable draws its bottom border once, after all data rows
\* (no rule is drawn while rows remain): on the page of the last drawn row, at
\* the bottom y of that row (of the header when rows is empty), from tableX
\* over the full table width; and it returns that y + 4.
C15_BottomBorder ==
    /\ pc = "wide" => Rules = {}
    /\ last.op = "drawWideLeftTable" =>
         LET n == Len(drawn)
         IN /\ Rules = {n}
            /\ drawn[n - 1].kind = IF Len(rows) = 0 THEN "header" ELSE "row"
            /\ drawn[n - 1].row = Len(rows)
            /\ drawn[n].page = drawn[n - 1].page
            /\ drawn[n].y = drawn[n - 1].y + drawn[n - 1].h
            /\ drawn[n].x = LeftMargin
            /\ drawn[n].w1 = UsableWidth
            /\ last.ret = drawn[n].y + 4

\* a finished table whose last row, and so its border, is on a continuation page
C15_Witness ==
    /\ last.op = "drawWideLeftTable"
    /\ Len(rows) >= 1
    /\ drawn[Len(drawn)].kind = "rule"
    /\ drawn[Len(drawn)].page > drawn[1].page

KVRows == {k \in 1..Len(drawn) : drawn[k].kind = "kvrow"}
KVHeaders == {k \in 1..Len(drawn) : drawn[k].kind = "kvheader"}

\* C16: in printKeyValueTable every page that carries an entry of the table
\* carries the header row, drawn before the page's first entry: whenever
\* the per-row ensureSpace(doc, 14) breaks to a new page, the header is drawn
\* again at the top of that page before the next entry.
C16_KVHeaderOnEveryPage ==
    \A k \in KVRows :
        \E j \in KVHeaders :
            /\ j < k
            /\ drawn[j].page = drawn[k].page
            /\ drawn[j].y < drawn[k].y

ExceedsPage(n) == n > pageHeight - TopMargin - BottomMargin

\* C17 as stated: an ensureSpace call whose neededHeight exceeds the usable
\* page height adds exactly one page from every cursor position, and the
\* block then overflows the new page.
C17_AsStated ==
    (Ensured /\ ExceedsPage(last.needed)) =>
        /\ pages = last.pages0 + 1
        /\ docY = TopMargin
        /\ docY + last.needed > Bottom(pageHeight)

\* C17 amended: an ensureSpace call whose neededHeight exceeds the usable
\* page height adds exactly one page from every cursor position more than one
\* unit below the top margin, and none from a cursor at most one unit below
\* it, which it leaves where it is; either way the cursor is then within one
\* unit of the top margin and the block overflows the page it is drawn on.
C17_OversizeBreaksOnce ==
    (Ensured /\ ExceedsPage(last.needed)) =>
        /\ pages = last.pages0 + (IF last.y0 > TopMargin + 1 THEN 1 ELSE 0)
        /\ docY = (IF last.y0 > TopMargin + 1 THEN TopMargin ELSE last.y0)
        /\ docY <= TopMargin + 1
        /\ docY + last.needed > Bottom(pageHeight)

\* an oversize request has broken the page
C17_Witness ==
    /\ Ensured
    /\ ExceedsPage(last.needed)
    /\ pages = last.pages0 + 1
    /\ docY = TopMargin

\* C24: components are chained down the page: after each drawWideLeftTable
\* call in exportReportToPDF, the position at which the caller places the
\* next content (doc.y after its moveDown) is at or below the yFinal the
\* table returned, and so below the table's bottom border, for every table
\* including one with zero rows.
C24_ChainedBelowTable ==
    last.op = "moveDown" => docY >= last.ret

\* the caller has moved on after a table that ended just above the page bottom
C24_Witness ==
    /\ last.op = "moveDown"
    /\ docY > Bottom(pageHeight)

\* C25: in drawWideLeftTable, for every row and every label / value text
\* (labels that wrap to more than one line included), the drawn text lies
\* entirely inside that row's 18-unit bordering rectangle and does not extend
\* into the following row.
C25_TextInsideRow ==
    \A k \in RowDraws :
        /\ drawn[k].textY >= drawn[k].y
        /\ drawn[k].textY + drawn[k].labelH <= drawn[k].y + drawn[k].h
        /\ drawn[k].textY + drawn[k].valueH <= drawn[k].y + drawn[k].h

\* an ensureSpace call made right after another, nothing drawn in between
EnsuredTwice ==
    /\ Ensured
    /\ last.prev # <<>>

\* C27: ensureSpace is idempotent: two calls in succession with nothing drawn
\* in between add at most one page in total, for every cursor position and
\* needed heights; and when the second call asks for no more than the first
\* (the same height again, or 60 after 100 as in exportReportToPDF) it adds
\* no page and leaves the cursor where the first call alone left it.
C27_EnsureSpaceIdempotent ==
    EnsuredTwice =>
        /\ pages <= last.prev[1].pages0 + 1
        /\ last.needed <= last.prev[1].needed =>
              /\ pages = last.pages0
              /\ docY = last.y0

\* the first call broke the page, and the second asked at the top of the new
\* page for more than the page holds
C27_Witness ==
    /\ EnsuredTwice
    /\ last.pages0 = last.prev[1].pages0 + 1
    /\ last.needed <= last.prev[1].needed
    /\ last.y0 + last.needed > Bottom(pageHeight)
    /\ docY = TopMargin

\* C28: drawWideLeftTable never leaves an orphan header: when rows is
\* non-empty, every page on which the finished table has drawn a header row
\* also carries at least one data row of the table, for every start y.
C28_NoOrphanHeader ==
    (last.op = "drawWideLeftTable" /\ Len(rows) > 0) =>
        \A j \in HeaderDraws :
            \E k \in RowDraws : drawn[k].page = drawn[j].page

\* C23: in exportReportToPDF, after any sequence of layout operations, every
\* page of the document has had the page border drawn exactly once, whichever
\* operation created the page (ensureSpace, drawWideLeftTable's own break or
\* printKeyValueTable's per-row ensureSpace), and right after a page is
\* created the cursor is at the top margin: ensureSpace leaves doc.y there,
\* and the first thing a table draws on a page it created is at the top margin.
C23_BorderOncePerPage ==
    /\ Len(borders) = pages
    /\ \A p \in 1..pages : borders[p] = 1
    /\ (Ensured /\ EnsureAdded) => docY = TopMargin
    /\ \A k \in 2..Len(drawn) :
         drawn[k].page # drawn[k - 1].page =>
            /\ drawn[k].page = drawn[k - 1].page + 1
            /\ drawn[k].y = TopMargin

\* a table that started on a page created before it has created the third page
C23_Witness ==
    /\ pc = "wide"
    /\ pages = 3
    /\ drawn[1].page = 2
    /\ drawn[Len(drawn)].page = 3

----------------------------------------------------------------------------
(* Properties of the grid rows *)

\* the rows whose draw calls are on record (the row just rendered)
Detailed == {k \in 1..Len(grid) : "seps" \in DOMAIN grid[k]}

\* C4: of two rows rendered one after the other on the same page, the second
\* starts at or below the bottom of the first: grid rows chained through the
\* returned y start at or below the previous row's bottom rule, and a data
\* row of drawWideLeftTable starts at or below the end of the row before it.
C4_NoOverlap ==
    /\ \A k \in 1..(Len(grid) - 1) : grid[k + 1].top >= grid[k].rule
    /\ \A k \in 1..(Len(drawn) - 1) :
         (IsRow(k) /\ IsRow(k + 1) /\ drawn[k].page = drawn[k + 1].page)
            => drawn[k + 1].y >= drawn[k].y + drawn[k].h

\* a second grid row has been rendered below a first
C4_Witness ==
    /\ Len(grid) = 2
    /\ 2 \in Detailed
    /\ grid[2].top > grid[1].rule

\* C5 as stated: every vertical separator of a row spans exactly from the y
\* at which the row's content starts (valueFromTop) to the row's bottom rule.
C5_AsStated ==
    \A k \in Detailed : \A sep \in grid[k].seps :
        /\ sep.from = grid[k].top
        /\ sep.to = grid[k].rule

\* C5 amended: every vertical separator of a row spans exactly from the
\* beginningPoint handed to the renderer to the row's bottom rule at
\* valueFromTop + height + 5; beginningPoint is the rule above the row (the
\* table's top line, 8 above the first row's content, or the previous row's
\* bottom rule, 5 above a later row's content), so the separator starts above
\* the row's content and ends on the rule.
C5_SeparatorSpan ==
    \A k \in Detailed :
        /\ grid[k].rule = grid[k].top + grid[k].height + RuleGap
        /\ grid[k].beginning = IF k = 1 THEN grid[k].top - TopGap ELSE grid[k - 1].rule
        /\ grid[k].beginning < grid[k].top
        /\ \A sep \in grid[k].seps :
             /\ sep.from = grid[k].beginning
             /\ sep.to = grid[k].rule

\* a second row with a separator has been rendered
C5_Witness ==
    /\ 2 \in Detailed
    /\ grid[2].seps # {}

\* the heights generateInformationLine measures to size a row
Sizing(r) == {Measure(r.cells[i], r.ambient) : i \in 1..Len(r.cells)}

\* C6: the height of a row rendered by generateInformationLine is the larger
\* of minCellHeight (14) and the tallest measured cell: at least 14, and
\* exactly 14 when every cell text is empty (measures 0).
C6_LineRowHeight ==
    \A k \in Detailed :
        grid[k].fn = "line" =>
            /\ grid[k].height >= MinCellHeight
            /\ \A m \in Sizing(grid[k]) : grid[k].height >= m
            /\ grid[k].height \in Sizing(grid[k]) \cup {MinCellHeight}
            /\ Sizing(grid[k]) \subseteq {0} => grid[k].height = MinCellHeight
            /\ grid[k].rule - grid[k].top = grid[k].height + RuleGap

\* a row of empty texts rendered by generateInformationLine
C6_Witness ==
    \E k \in Detailed :
        /\ grid[k].fn = "line"
        /\ Sizing(grid[k]) = {0}
        /\ grid[k].height = MinCellHeight

\* C7: in generateInformationLineWithFixedHeight every text is drawn
\* (fixedHeight - ownHeight) / 2 below the row's starting y, clamped at 0, so
\* the text y is never above valueFromTop.
C7_ClampedOffset ==
    \A k \in Detailed :
        grid[k].fn = "fixed" =>
            \A i \in 1..Len(grid[k].cells) :
                /\ grid[k].texts2[i] >= 2 * grid[k].top
                /\ grid[k].texts2[i] =
                     2 * grid[k].top + Max(grid[k].height - grid[k].heights[i], 0)

\* the cells of row r that measure less than the row's height
Shorter(r) == {i \in 1..Len(r.cells) : r.heights[i] < r.height}
\* twice the gap above and below the text of cell i in the box of row r
TopGap2(r, i) == r.texts2[i] - 2 * r.top
BottomGap2(r, i) == 2 * (r.top + r.height) - (r.texts2[i] + 2 * r.heights[i])

Assigned == gpc \in {"chain", "taxValues", "taxDone", "premRow", "premText"}

\* C9 as stated: the row renderer returns the new cursor position (bottom
\* rule + inter-row gap) and the row's top y0.
C9_AsStated ==
    \A k \in Detailed :
        /\ grid[k].ret[1] = grid[k].rule + InterRowGap
        /\ grid[k].ret[2] = grid[k].top

\* C9 amended: the row renderer returns the new cursor position (bottom rule
\* + inter-row gap) and the y of the row's bottom rule (endingPoint), which
\* the caller takes as the next row's beginningPoint; it is never the row's top.
\* (Assigned: the caller is where its assignment of the returned pair left it.)
C9_ReturnsRule ==
    /\ \A k \in Detailed :
         /\ grid[k].ret[1] = grid[k].top + grid[k].height + RuleGap + InterRowGap
         /\ grid[k].ret[2] = grid[k].top + grid[k].height + RuleGap
         /\ grid[k].ret[2] = grid[k].rule
         /\ grid[k].ret[2] # grid[k].top
    /\ (Len(grid) > 0 /\ Detailed = {} /\ Assigned) =>
         /\ valueFromTop = grid[Len(grid)].rule + InterRowGap
         /\ beginningPoint = grid[Len(grid)].rule

\* a caller has taken over the pair a row renderer returned
C9_Witness ==
    /\ Len(grid) > 0
    /\ Detailed = {}
    /\ beginningPoint = grid[Len(grid)].rule

\* the tax table's row positions
TaxRowDrawn == gpc \in {"taxLabelsRet", "taxValuesRet"}

\* C10: a row of N >= 1 cells has one row height of at least 14 shared by all
\* its cells -- every separator ends on the one bottom rule -- and exactly
\* N - 1 vertical separators, one at each inner column boundary; a row of the
\* six-column tax table has exactly 5, and both its rows have the same height.
C10_UniformRow ==
    /\ \A k \in Detailed :
         Len(grid[k].cells) >= 1 =>
            /\ grid[k].height >= MinCellHeight
            /\ Cardinality(grid[k].seps) = Len(grid[k].cells) - 1
            /\ {sep.col : sep \in grid[k].seps} = 1..(Len(grid[k].cells) - 1)
            /\ \A sep \in grid[k].seps : sep.to = grid[k].top + grid[k].height + RuleGap
    /\ TaxRowDrawn =>
         /\ Cardinality(grid[Len(grid)].seps) = 5
         /\ grid[Len(grid)].height = uniformCellHeight
         /\ \A k \in 1..Len(grid) : grid[k].rule - grid[k].top = uniformCellHeight + RuleGap

\* the second row of a tax table has been rendered
C10_Witness ==
    /\ gpc = "taxValuesRet"
    /\ Cardinality(grid[2].seps) = 5

\* both rows of the tax table have been drawn
TaxBoth == gpc \in {"taxValuesRet", "taxDone"}
\* the distance between the rules bounding row k: from the rule above it (the
\* table's top line or the previous row's bottom rule) to its bottom rule
Between(k) == grid[k].rule - grid[k].beginning

C11_EqualSlices ==
    \A k \in Detailed :
        LET n == Len(grid[k].cells)
        IN n >= 1 =>
             /\ grid[k].ruleFrom = LeftMargin
             /\ grid[k].ruleTo = LeftMargin + UsableWidth
             /\ \A i \in DOMAIN grid[k].xs :
                  n * (grid[k].xs[i] - LeftMargin) = i * UsableWidth

\* C18: every height used to size or to centre a row is measured under the
\* font state (font and size) the cell's text is then drawn in: the height
\* the draw loop measures for each cell, the first included, and the row
\* height the renderer or its caller measured beforehand.
C18_MeasureMatchesDraw ==
    \A k \in Detailed :
        /\ \A i \in 1..Len(grid[k].cells) : grid[k].measured[i] = grid[k].drawnIn
        /\ (grid[k].sized # "none" /\ Len(grid[k].cells) > 0) =>
              grid[k].sized = grid[k].drawnIn

----------------------------------------------------------------------------
(* Properties of the documents as wholes *)

\* C19: a missing logo is recovered locally: when doc.image fails in
\* generateHeader or in addHeritageLogo nothing is thrown to the generator,
\* the header's three address lines, its rule and its title are still drawn,
\* and generateHeader returns the y it returns with the logo present (113).
C19_LogoRecovered ==
    /\ header.done =>
         /\ ~header.thrown
         /\ Len(header.texts) = 3
         /\ header.rule # Undefined
         /\ header.title # Undefined
         /\ header.ret = 113
    /\ footer # "thrown"

\* the logo was missing both in the header and at the foot of the page
C19_Witness ==
    /\ header.done
    /\ ~header.logo
    /\ footer = "skipped"

\* C20: for every generator, a failure of the output stream or of the file
\* write is surfaced to the caller as a failed result (a rejected promise or
\* a thrown error).
C20_FailureSurfaced ==
    stream = "failed" => result \in {"rejected", "thrown"}

\* the document has been laid out to its end and doc.end() has run
Ended == pc = "ended" \/ gpc = "ended"
\* the render failed part-way
FailedPartWay == pc = "failed" \/ gpc = "failed"

\* C21: a render is all-or-nothing, for every generator: nothing is at the
\* destination path before the whole document has been laid out and ended,
\* so a render that fails part-way (a layout error, a QR-code failure) leaves
\* no file and no partial file at the destination path.
C21_AllOrNothing ==
    /\ file # "none" => Ended
    /\ FailedPartWay => file = "none"

----------------------------------------------------------------------------
(* Properties of calls running side by side *)

Started(c) == calls[c].at # "new"
\* the chunks document c has emitted, in order
Emitted(c) == [i \in 1..calls[c].emitted |-> [doc |-> c, n |-> i]]

\* C22: two generator calls interleaved at the await on the QR code and at
\* the "end" event share no layout state: each call's y is the one its own
\* data gives, each call's chunks array holds the chunks of its own document
\* and no others, and what is written for a call is exactly the chunks its
\* own document emitted, under every interleaving.
C22_NoSharedState ==
    /\ \A c \in DOMAIN calls :
         /\ Started(c) => calls[c].y = 113 + calls[c].below
         /\ chunks[c] = Emitted(c)
    /\ \A f \in DOMAIN files :
         files[f] # NoFile =>
            /\ calls[files[f].by].fileName = f
            /\ calls[files[f].by].at = "done"
            /\ files[f].data = Emitted(files[f].by)

\* both calls have written their file, each after the other had emitted a
\* chunk of its own
C22_Witness ==
    /\ \A c \in DOMAIN calls : calls[c].at = "done" /\ calls[c].emitted = MaxChunks
    /\ DOMAIN calls # {}
    /\ \A f \in DOMAIN files : files[f] # NoFile

----------------------------------------------------------------------------
(* Properties of the report data and of the spreadsheet cells *)

\* a rate <<numerator, denominator>> lies within 0..100 percent
WithinPercent(rate) ==
    /\ rate[2] > 0
    /\ rate[1] >= 0
    /\ rate[1] <= 100 * rate[2]

\* C29: the conversion rates reported by generateQuotationSection and
\* generateClaimsSection are within 0..100 percent for all inputs (the
\* converted quotation numbers are never more than the filtered quotations,
\* the policy ids with claims never more than policies.length), and both
\* rates are 0 when the denominator is 0.
C29_RatesWithinPercent ==
    /\ (rates # <<>> /\ rates.quotation # NotComputed) =>
         /\ WithinPercent(rates.quotation)
         /\ Len(quotations) = 0 => rates.quotation[1] = 0
    /\ (rates # <<>> /\ rates.claims # NotComputed) =>
         /\ WithinPercent(rates.claims)
         /\ Len(policies) = 0 => rates.claims[1] = 0

\* getValueByPath has run
Extracted == extracted # <<>> /\ extracted # NotExtracted

\* what the path leads to through own properties only; undefined when a
\* segment is missing or is applied to null or to something that is no object
RECURSIVE Own(_, _, _)
Own(current, parts, i) ==
    IF i > Len(parts) THEN current
    ELSE IF current.t # "object" THEN Undef
    ELSE IF parts[i] \notin DOMAIN current.f THEN Undef
    ELSE Own(current.f[parts[i]], parts, i + 1)

\* C30: getValueByPath extracts nested values safely: for every record and
\* path it returns a string and never throws; a path that addresses a MongoDB
\* wrapper through .$oid or .$date returns the wrapped value as a string; and
\* a path that cannot be fully resolved (a missing or null segment, a segment
\* applied to a non-object) returns the empty string.
C30_SafeExtraction ==
    Extracted =>
        LET target == Own(obj, path, 1)
        IN /\ extracted.t = "string"
           /\ (path[Len(path)] \in {"$oid", "$date"} /\ target.t \in {"string", "number"})
                 => extracted = Str(target.v)
           /\ target.t \in {"undefined", "null"} => extracted = Str("")

====
